---- MODULE Spec2Model ----
(***************************************************************************)
(* Model of ganvas' window wrappers: the resize / surface / present        *)
(* lifecycle of WindowWrapper (cpu.rs, vulkan.rs), the Vulkan bootstrap    *)
(* and teardown of AshGraphics (vulkan.rs) and the headless EGL bootstrap  *)
(* of WindowWrapper::wrap (gl.rs).                                         *)
(***************************************************************************)
EXTENDS Integers, Sequences, FiniteSets, TLC

VARIABLES
    \* ---- WindowWrapper (cpu.rs:9-14, vulkan.rs:15-22) ----
    skia_surface,   \* Option<Surface>: None, or Some([width, height, id])
    size,           \* ISize (i32 x i32), the last recorded size
    fb_size,        \* size of the softbuffer framebuffer: None or Some(<<w, h>>)
    readback,       \* last read_pixels into the framebuffer: None or Some(record)
    submitted,      \* number of framebuffers submitted by soft_buffer.present()
    allocs,         \* number of drawing surfaces allocated so far (gives ids)
    result,         \* the last call on the wrapper and how it ended
    prev,           \* the call before it
    \* ---- AshGraphics (vulkan.rs:143-281) ----
    physical_devices,  \* enumeration: per device, per queue family, GRAPHICS flag
    vk_state,          \* "none" | "live" | "failed" | "dropped" | "drop_panicked"
    vk_selected,       \* None or Some(<<device position, queue family index>>)
    vk_log,            \* Vulkan calls made so far, in order
    \* ---- EGL WindowWrapper::wrap (gl.rs:27-101) ----
    configs,        \* find_configs result: num_samples of each config, in order
    egl_state,      \* "none" | "wrapped" | "failed"
    egl_config,     \* None or Some(position in configs, 0-based)
    egl_context,    \* None or Some(api) of the context that was created
    egl_log         \* create_context attempts so far: [api, ok]

wrapperVars == <<skia_surface, size, fb_size, readback, submitted, allocs, result,
                 prev>>
vkVars      == <<physical_devices, vk_state, vk_selected, vk_log>>
eglVars     == <<configs, egl_state, egl_config, egl_context, egl_log>>
vars        == <<wrapperVars, vkVars, eglVars>>

\* ---------------------------------------------------------------------
\* Bounds of the model
MaxSurfaces == 3    \* drawing surfaces allocated in one run
MaxPresents == 2    \* framebuffers submitted in one run
MaxDevices  == 3    \* physical devices enumerated
MaxFamilies == 2    \* queue families per physical device
MaxConfigs  == 4    \* configurations returned by find_configs

\* Option<T>
None    == <<>>
Some(x) == <<x>>
IsSome(o) == o # None
Unwrap(o) == o[1]

\* A u32 is held as its two 16-bit halves <<hi, lo>>, so that every u32 and
\* every i32 stays within the checker's integers.
U32(hi, lo) == <<hi, lo>>

\* Window sizes <<width, height>> offered to resize: a zero in either
\* place, three ordinary sizes, and a width of 2^31, the smallest u32 whose
\* `as i32` cast is negative.
Sizes == {<<U32(0, 0), U32(0, 1)>>, <<U32(0, 1), U32(0, 0)>>,
          <<U32(0, 1), U32(0, 1)>>, <<U32(0, 1), U32(0, 2)>>,
          <<U32(0, 2), U32(0, 1)>>, <<U32(2^15, 0), U32(0, 1)>>}

\* `x as i32` for a u32 x (cpu.rs:38, cpu.rs:59): two's complement
AsI32(x) ==
    IF x[1] >= 2^15 THEN (x[1] - 2^16) * 2^16 + x[2] ELSE x[1] * 2^16 + x[2]

\* NonZeroU32::new(x) (cpu.rs:31-32)
NonZeroU32(x) == IF x = U32(0, 0) THEN None ELSE Some(x)

\* ISize::default() (cpu.rs:25)
DefaultSize == <<0, 0>>

\* ---------------------------------------------------------------------
\* WindowWrapper: resize / surface / present (cpu.rs, vulkan.rs)

\* The record a call leaves behind: which call, its argument, the result of
\* the framebuffer resize it made ("ok" | "err", "none" when it made none),
\* how it ended ("Ok" | "Err" | "panic" | "ref" | "ret") and the reference
\* it returned.
Call(op, arg, fb, out, ret) ==
    [op |-> op, arg |-> arg, fb |-> fb, out |-> out, ret |-> ret]

\* create_surface: the allocation returns None for a non-positive dimension
\* or when the allocator fails; the caller's unwrap() then panics.
CreateSurface(w, h, allocOk, id) ==
    IF AsI32(w) > 0 /\ AsI32(h) > 0 /\ allocOk
    THEN Some([width |-> AsI32(w), height |-> AsI32(h), id |-> id])
    ELSE None

\* Variant of resize that keeps an existing drawing surface instead of
\* replacing it
ResizeStep_KeepsSurface(w, h, fbOk, allocOk) ==
    LET unchanged == [surface |-> skia_surface, size |-> size,
                      fb_size |-> fb_size, allocs |-> allocs]
    IN  IF NonZeroU32(w) = None \/ NonZeroU32(h) = None
        THEN unchanged @@ [fb |-> "none", out |-> "panic"]
        ELSE IF ~fbOk
        THEN unchanged @@ [fb |-> "err", out |-> "Err"]
        ELSE LET surface == CreateSurface(w, h, allocOk, allocs + 1)
             IN  IF surface = None
                 THEN [surface |-> skia_surface, size |-> size,
                       fb_size |-> Some(<<w, h>>), allocs |-> allocs,
                       fb |-> "ok", out |-> "panic"]
                 ELSE [surface |-> IF IsSome(skia_surface) THEN skia_surface
                                   ELSE surface,
                       size |-> <<AsI32(w), AsI32(h)>>,
                       fb_size |-> Some(<<w, h>>), allocs |-> allocs + 1,
                       fb |-> "ok", out |-> "Ok"]

\* Variant of resize that records the requested size before it looks at the
\* result of the framebuffer resize
ResizeStep_SizeFirst(w, h, fbOk, allocOk) ==
    LET unchanged == [surface |-> skia_surface, size |-> size,
                      fb_size |-> fb_size, allocs |-> allocs]
    IN  IF NonZeroU32(w) = None \/ NonZeroU32(h) = None
        THEN unchanged @@ [fb |-> "none", out |-> "panic"]
        ELSE IF ~fbOk
        THEN [surface |-> skia_surface, size |-> <<AsI32(w), AsI32(h)>>,
              fb_size |-> fb_size, allocs |-> allocs,
              fb |-> "err", out |-> "Err"]
        ELSE LET surface == CreateSurface(w, h, allocOk, allocs + 1)
             IN  IF surface = None
                 THEN [surface |-> skia_surface,
                       size |-> <<AsI32(w), AsI32(h)>>,
                       fb_size |-> Some(<<w, h>>), allocs |-> allocs,
                       fb |-> "ok", out |-> "panic"]
                 ELSE [surface |-> surface,
                       size |-> <<AsI32(w), AsI32(h)>>,
                       fb_size |-> Some(<<w, h>>), allocs |-> allocs + 1,
                       fb |-> "ok", out |-> "Ok"]

\* resize(size): the wrapper's fields and the call's outcome after the call.
\* fbOk is the result of soft_buffer_surface.resize, allocOk whether the
\* drawing library can allocate the surface.
ResizeStep(w, h, fbOk, allocOk) ==
    LET unchanged == [surface |-> skia_surface, size |-> size,
                      fb_size |-> fb_size, allocs |-> allocs]
    IN  IF NonZeroU32(w) = None \/ NonZeroU32(h) = None
        THEN unchanged @@ [fb |-> "none", out |-> "panic"]  \* unwrap() of None
        ELSE IF ~fbOk
        THEN unchanged @@ [fb |-> "err", out |-> "Err"]     \* return Err(e)
        ELSE LET surface == CreateSurface(w, h, allocOk, allocs + 1)
             IN  IF surface = None
                 THEN [surface |-> skia_surface, size |-> size,
                       fb_size |-> Some(<<w, h>>), allocs |-> allocs,
                       fb |-> "ok", out |-> "panic"]        \* unwrap() of None
                 ELSE [surface |-> surface,
                       size |-> <<AsI32(w), AsI32(h)>>,
                       fb_size |-> Some(<<w, h>>), allocs |-> allocs + 1,
                       fb |-> "ok", out |-> "Ok"]

Resize(w, h, fbOk, allocOk) ==
    /\ allocs < MaxSurfaces
    /\ LET r == ResizeStep(w, h, fbOk, allocOk)
       IN  /\ skia_surface' = r.surface
           /\ size' = r.size
           /\ fb_size' = r.fb_size
           /\ allocs' = r.allocs
           /\ result' = Call("resize", <<w, h>>, r.fb, r.out, None)
    /\ prev' = result
    /\ UNCHANGED <<readback, submitted, vkVars, eglVars>>

\* Variant of surface() that hands out whatever the field holds
SurfaceStep_NoCheck == Call("surface", <<>>, "none", "ref", skia_surface)

\* surface(): a reference to the drawing surface, or a panic
SurfaceStep ==
    IF IsSome(skia_surface)
    THEN Call("surface", <<>>, "none", "ref", skia_surface)
    ELSE Call("surface", <<>>, "none", "panic", None)

Surface ==
    /\ result' = SurfaceStep
    /\ prev' = result
    /\ UNCHANGED <<skia_surface, size, fb_size, readback, submitted, allocs,
                   vkVars, eglVars>>

\* Variant of present() that maps and submits the framebuffer whether or
\* not a drawing surface exists
PresentStep_NoGuard(bufOk, presentOk) ==
    IF ~bufOk
    THEN [readback |-> readback, submitted |-> submitted, out |-> "panic"]
    ELSE LET rb == IF IsSome(skia_surface)
                   THEN Some([info |-> size, stride |-> size[1] * 4,
                              origin |-> <<0, 0>>,
                              src |-> Unwrap(skia_surface).id,
                              dst |-> fb_size])
                   ELSE readback
         IN  IF presentOk
             THEN [readback |-> rb, submitted |-> submitted + 1, out |-> "ret"]
             ELSE [readback |-> rb, submitted |-> submitted, out |-> "panic"]

\* present(): read the surface back into the framebuffer and submit it.
\* bufOk is the result of buffer_mut(), presentOk of soft_buffer.present().
PresentStep(bufOk, presentOk) ==
    IF ~IsSome(skia_surface)
    THEN [readback |-> readback, submitted |-> submitted, out |-> "ret"]
    ELSE IF ~bufOk
    THEN [readback |-> readback, submitted |-> submitted, out |-> "panic"]
    ELSE LET rb == Some([info |-> size, stride |-> size[1] * 4,
                         origin |-> <<0, 0>>, src |-> Unwrap(skia_surface).id,
                         dst |-> fb_size])
         IN  IF presentOk
             THEN [readback |-> rb, submitted |-> submitted + 1, out |-> "ret"]
             ELSE [readback |-> rb, submitted |-> submitted, out |-> "panic"]

Present(bufOk, presentOk) ==
    /\ submitted < MaxPresents
    /\ LET r == PresentStep(bufOk, presentOk)
       IN  /\ readback' = r.readback
           /\ submitted' = r.submitted
           /\ result' = Call("present", <<>>, "none", r.out, None)
    /\ prev' = result
    /\ UNCHANGED <<skia_surface, size, fb_size, allocs, vkVars, eglVars>>

\* wrap(window): no surface, default size, a framebuffer not yet sized
InitWrapper ==
    /\ skia_surface = None
    /\ size = DefaultSize
    /\ fb_size = None
    /\ readback = None
    /\ submitted = 0
    /\ allocs = 0
    /\ result = Call("wrap", <<>>, "none", "Ok", None)
    /\ prev = Call("none", <<>>, "none", "none", None)

\* ---------------------------------------------------------------------
\* AshGraphics: Vulkan bootstrap and teardown (vulkan.rs)

\* Sequences over S of length at most n
SeqsUpTo(S, n) == UNION {[1..k -> S] : k \in 0..n}

\* A queue family is its GRAPHICS flag; a device is its list of families.
FamilyLists == SeqsUpTo(BOOLEAN, MaxFamilies)
Enumerations == SeqsUpTo(FamilyLists, MaxDevices)

\* .iter().enumerate().find_map(..): the index (from 0) of the first queue
\* family at or after position i whose flags contain GRAPHICS
RECURSIVE FindGraphicsFrom(_, _)
FindGraphicsFrom(families, i) ==
    IF i > Len(families) THEN None
    ELSE IF families[i] THEN Some(i - 1)
    ELSE FindGraphicsFrom(families, i + 1)

\* Variant of the family search that reports the last graphics-capable
\* family instead of the first
FindGraphicsFamily_Last(families) ==
    LET capable == {i \in 1..Len(families) : families[i]}
    IN  IF capable = {} THEN None
        ELSE Some((CHOOSE i \in capable : \A j \in capable : j <= i) - 1)

FindGraphicsFamily(families) == FindGraphicsFrom(families, 1)

\* .map(..).find_map(|v| v): the first device at or after position d for
\* which the inner search finds a family, paired with that family's index
RECURSIVE SelectFrom(_, _)
SelectFrom(devs, d) ==
    IF d > Len(devs) THEN None
    ELSE LET found == FindGraphicsFamily(devs[d])
         IN  IF IsSome(found) THEN Some(<<d, Unwrap(found)>>)
             ELSE SelectFrom(devs, d + 1)

SelectDevice(devs) == SelectFrom(devs, 1)

\* AshGraphics::new: every step is fatal on failure.  The outcome is the
\* state of the bootstrap, the selection and the Vulkan calls made.
AshNewStep(devs, entryOk, instOk, enumOk, devOk) ==
    LET failed(log) == [state |-> "failed", selected |-> None, log |-> log]
        sel == SelectDevice(devs)
    IN  IF ~entryOk THEN failed(<<>>)                    \* Entry::load().unwrap()
        ELSE IF ~instOk THEN failed(<<>>)                \* create_instance .expect
        ELSE IF ~enumOk THEN failed(<<"create_instance">>)
        ELSE IF sel = None THEN failed(<<"create_instance">>)
        ELSE IF ~devOk THEN failed(<<"create_instance">>) \* create_device .unwrap()
        ELSE [state |-> "live", selected |-> sel,
              log |-> <<"create_instance", "create_device">>]

AshNew(entryOk, instOk, enumOk, devOk) ==
    /\ vk_state = "none"
    /\ LET r == AshNewStep(physical_devices, entryOk, instOk, enumOk, devOk)
       IN  /\ vk_state' = r.state
           /\ vk_selected' = r.selected
           /\ vk_log' = vk_log \o r.log
    /\ UNCHANGED <<physical_devices, wrapperVars, eglVars>>

\* Variant of the teardown that destroys the device and the instance
\* without waiting for the device to go idle
DropCalls_NoWait(idleOk) == <<"destroy_device", "destroy_instance">>

\* Drop for AshGraphics: the calls made, in order; a failed idle wait
\* panics before anything is destroyed.
DropCalls(idleOk) ==
    IF idleOk
    THEN <<"device_wait_idle", "destroy_device", "destroy_instance">>
    ELSE <<"device_wait_idle">>

AshDrop(idleOk) ==
    /\ vk_state = "live"
    /\ vk_state' = IF idleOk THEN "dropped" ELSE "drop_panicked"
    /\ vk_log' = vk_log \o DropCalls(idleOk)
    /\ UNCHANGED <<physical_devices, vk_selected, wrapperVars, eglVars>>

InitVulkan(devs) ==
    /\ physical_devices = devs
    /\ vk_state = "none"
    /\ vk_selected = None
    /\ vk_log = <<>>

\* ---------------------------------------------------------------------
\* Headless EGL: WindowWrapper::wrap (gl.rs)

\* num_samples values a configuration may report
Samples == {1, 2, 4}
ConfigLists == SeqsUpTo(Samples, MaxConfigs)

\* Numbers of devices query_devices may report
EglDeviceCounts == 0..2

\* The closure handed to reduce, with the closure's own parameter names:
\* |config, acc| if config.num_samples() > acc.num_samples() {config} else {acc}
\* Configurations are named by their position (from 0) in the list.
PickConfig(cfgs, config, acc) ==
    IF cfgs[config + 1] > cfgs[acc + 1] THEN config ELSE acc

\* Iterator::reduce(f): the first item starts the accumulator and every
\* later item x replaces it by f(accumulator, x).
RECURSIVE ReduceFrom(_, _, _)
ReduceFrom(cfgs, accum, i) ==
    IF i > Len(cfgs) THEN accum
    ELSE ReduceFrom(cfgs, PickConfig(cfgs, accum, i - 1), i + 1)

ReduceConfigs(cfgs) ==
    IF Len(cfgs) = 0 THEN None ELSE Some(ReduceFrom(cfgs, 0, 2))

\* Variant of the context creation that makes the fallback attempt before
\* it knows whether the first attempt failed (unwrap_or in place of
\* unwrap_or_else)
CreateContext_Eager(coreOk, fallbackOk) ==
    LET both == <<[api |-> "core", ok |-> coreOk],
                  [api |-> "fallback", ok |-> fallbackOk]>>
    IN  IF coreOk THEN [log |-> both, context |-> Some("core")]
        ELSE [log |-> both,
              context |-> IF fallbackOk THEN Some("fallback") ELSE None]

\* create_context(core).unwrap_or_else(|_| create_context(fallback).expect(..)):
\* the attempts made, in order, and the context obtained (None: panic)
CreateContext(coreOk, fallbackOk) ==
    IF coreOk
    THEN [log |-> <<[api |-> "core", ok |-> TRUE]>>, context |-> Some("core")]
    ELSE [log |-> <<[api |-> "core", ok |-> FALSE],
                    [api |-> "fallback", ok |-> fallbackOk]>>,
          context |-> IF fallbackOk THEN Some("fallback") ELSE None]

\* wrap(window) up to the construction of the wrapper; every step is fatal
\* on failure.  restOk: make_current_surfaceless, the GL interface, the
\* softbuffer context and surface, and make_gl all succeed.
EglWrapStep(cfgs, ndev, queryOk, displayOk, findOk, coreOk, fallbackOk, restOk) ==
    LET failed(cfg, ctx, log) ==
            [state |-> "failed", config |-> cfg, context |-> ctx, log |-> log]
        config == ReduceConfigs(cfgs)
        cc == CreateContext(coreOk, fallbackOk)
    IN  IF ~queryOk THEN failed(None, None, <<>>)       \* query_devices .expect
        ELSE IF ndev = 0 THEN failed(None, None, <<>>)   \* devices.first() .expect
        ELSE IF ~displayOk THEN failed(None, None, <<>>) \* with_device .expect
        ELSE IF ~findOk THEN failed(None, None, <<>>)    \* find_configs .unwrap()
        ELSE IF config = None THEN failed(None, None, <<>>) \* reduce .expect
        ELSE IF cc.context = None THEN failed(config, None, cc.log)
        ELSE IF ~restOk THEN failed(config, cc.context, cc.log)
        ELSE [state |-> "wrapped", config |-> config,
              context |-> cc.context, log |-> cc.log]

EglWrap(ndev, queryOk, displayOk, findOk, coreOk, fallbackOk, restOk) ==
    /\ egl_state = "none"
    /\ LET r == EglWrapStep(configs, ndev, queryOk, displayOk, findOk,
                            coreOk, fallbackOk, restOk)
       IN  /\ egl_state' = r.state
           /\ egl_config' = r.config
           /\ egl_context' = r.context
           /\ egl_log' = egl_log \o r.log
    /\ UNCHANGED <<configs, wrapperVars, vkVars>>

InitEgl(cfgs) ==
    /\ configs = cfgs
    /\ egl_state = "none"
    /\ egl_config = None
    /\ egl_context = None
    /\ egl_log = <<>>

\* ---------------------------------------------------------------------
\* Specifications

\* The wrapper's lifecycle after wrap(): any sequence of calls.  A panic
\* unwinds out of the call and leaves the wrapper's fields as it found them;
\* a caller that catches the unwind goes on with that wrapper.
Init == InitWrapper /\ InitVulkan(<<>>) /\ InitEgl(<<>>)

Next ==
    \/ \E s \in Sizes, fbOk \in BOOLEAN, allocOk \in BOOLEAN :
           Resize(s[1], s[2], fbOk, allocOk)
    \/ Surface
    \/ \E bufOk \in BOOLEAN, presentOk \in BOOLEAN : Present(bufOk, presentOk)

Spec == Init /\ [][Next]_vars

\* The Vulkan bootstrap over every enumeration of physical devices
InitVk == InitWrapper /\ InitEgl(<<>>) /\ \E devs \in Enumerations : InitVulkan(devs)

NextVk ==
    \/ \E entryOk \in BOOLEAN, instOk \in BOOLEAN, enumOk \in BOOLEAN,
          devOk \in BOOLEAN : AshNew(entryOk, instOk, enumOk, devOk)
    \/ \E idleOk \in BOOLEAN : AshDrop(idleOk)

SpecVulkan == InitVk /\ [][NextVk]_vars

\* The EGL bootstrap over every list of matching configurations
InitGl == InitWrapper /\ InitVulkan(<<>>) /\ \E cfgs \in ConfigLists : InitEgl(cfgs)

NextGl ==
    \E ndev \in EglDeviceCounts, queryOk \in BOOLEAN, displayOk \in BOOLEAN,
       findOk \in BOOLEAN, coreOk \in BOOLEAN, fallbackOk \in BOOLEAN,
       restOk \in BOOLEAN :
        EglWrap(ndev, queryOk, displayOk, findOk, coreOk, fallbackOk, restOk)

SpecEgl == InitGl /\ [][NextGl]_vars

\* ---------------------------------------------------------------------
\* Properties of the wrapper's lifecycle (checked under Spec)

IsResize(c) == c.op = "resize"
ZeroArea(c) == c.arg[1] = U32(0, 0) \/ c.arg[2] = U32(0, 0)
\* The i32 size a resize call asked for
Requested(c) == <<AsI32(c.arg[1]), AsI32(c.arg[2])>>
SurfaceSize(o) == <<Unwrap(o).width, Unwrap(o).height>>

\* C1: when resize(S1) is followed directly by resize(S2) and both return
\* Ok, the wrapper holds a drawing surface of size S2 that is the most
\* recently allocated one (not the surface allocated for S1), and the
\* recorded size is S2.
C1_SecondResizeWins ==
    (IsResize(prev) /\ prev.out = "Ok" /\ IsResize(result) /\ result.out = "Ok")
    => /\ IsSome(skia_surface)
       /\ SurfaceSize(skia_surface) = Requested(result)
       /\ Unwrap(skia_surface).id = allocs
       /\ size = Requested(result)

C1_Witness ==
    /\ IsResize(prev) /\ prev.out = "Ok"
    /\ IsResize(result) /\ result.out = "Ok"
    /\ prev.arg # result.arg
    /\ SurfaceSize(skia_surface) = Requested(result)

\* C2: a resize with a zero width or a zero height is rejected with an
\* error value returned to the caller; it neither panics nor succeeds.
C2_ZeroIsAnError ==
    (IsResize(result) /\ ZeroArea(result)) => result.out = "Err"

\* C3: the wrapper is Unready (no surface) from wrap() until the first
\* resize that returns Ok and Ready from then on; surface() panics exactly
\* when the wrapper is Unready and otherwise returns the current drawing
\* surface; a resize that does not return Ok leaves an Unready wrapper
\* Unready.
C3_State ==
    /\ IsSome(skia_surface) <=> allocs > 0
    /\ result.op = "surface" =>
         IF IsSome(skia_surface)
         THEN result.out = "ref" /\ result.ret = skia_surface
         ELSE result.out = "panic" /\ result.ret = None

C3_Step ==
    /\ IsSome(skia_surface) => IsSome(skia_surface')
    /\ (~IsSome(skia_surface) /\ IsSome(skia_surface'))
           => (IsResize(result') /\ result'.out = "Ok")
    /\ (IsResize(result') /\ result'.out = "Ok") => IsSome(skia_surface')

C3_TwoStates == []C3_State /\ [][C3_Step]_vars

C3_Witness ==
    /\ result.op = "surface" /\ result.out = "ref"
    /\ IsResize(prev) /\ prev.out = "Err"

\* C4: a resize with non-zero dimensions whose framebuffer resize fails
\* returns Err and leaves the drawing surface, the recorded size and the
\* record of what was presented as they were before the call.
C4_Step ==
    (IsResize(result') /\ result'.fb = "err")
    => /\ result'.out = "Err"
       /\ ~ZeroArea(result')
       /\ UNCHANGED <<skia_surface, size, readback, submitted, allocs>>

C4_FailedResizeKeepsState == [][C4_Step]_vars

C4_Witness ==
    /\ IsResize(result) /\ result.out = "Err"
    /\ IsSome(skia_surface)
    /\ Requested(result) # size

\* C5: whenever a drawing surface exists, its size equals the recorded
\* size and equals the size of the framebuffer.
C5_SizesAgree ==
    IsSome(skia_surface)
    => /\ SurfaceSize(skia_surface) = size
       /\ IsSome(fb_size)
       /\ Unwrap(fb_size)[1][1] < 2^15 /\ Unwrap(fb_size)[2][1] < 2^15
       /\ <<AsI32(Unwrap(fb_size)[1]), AsI32(Unwrap(fb_size)[2])>> = size

\* C10: present() without a drawing surface returns normally and changes
\* nothing; the framebuffer is written or submitted only by a present()
\* that finds a surface, which reads that surface back with the recorded
\* size, a stride of recorded width x 4 and origin (0, 0), and submits
\* only after that read-back.
C10_Step ==
    /\ (result'.op = "present" /\ prev' = result /\ ~IsSome(skia_surface))
       => /\ result'.out = "ret"
          /\ UNCHANGED <<skia_surface, size, fb_size, readback, submitted,
                         allocs>>
    /\ (readback' # readback \/ submitted' # submitted)
       => /\ result'.op = "present"
          /\ IsSome(skia_surface)
          /\ readback' = Some([info |-> size, stride |-> size[1] * 4,
                               origin |-> <<0, 0>>,
                               src |-> Unwrap(skia_surface).id,
                               dst |-> fb_size])
          /\ submitted' \in {submitted, submitted + 1}
          /\ submitted' = submitted + 1 <=> result'.out = "ret"

C10_PresentNeedsSurface == [][C10_Step]_vars

C10_Witness ==
    /\ result.op = "present" /\ result.out = "ret"
    /\ ~IsSome(skia_surface)
    /\ IsResize(prev) /\ prev.fb = "err"

\* ---------------------------------------------------------------------
\* Properties of the Vulkan bootstrap and teardown (checked under SpecVulkan)

HasGraphics(families) == \E i \in 1..Len(families) : families[i]
Called(log, call) == \E i \in 1..Len(log) : log[i] = call

\* C6: the bootstrap selects the first enumerated device that has a
\* graphics-capable queue family, with the lowest graphics-capable family
\* index on that device; when no device has one, the bootstrap fails and
\* no logical device is created.
C6_FirstGraphicsDevice ==
    /\ vk_state \in {"live", "dropped", "drop_panicked"} <=> IsSome(vk_selected)
    /\ IsSome(vk_selected) =>
         LET d == Unwrap(vk_selected)[1]
             f == Unwrap(vk_selected)[2]
         IN  /\ d \in 1..Len(physical_devices)
             /\ f \in 0..(Len(physical_devices[d]) - 1)
             /\ physical_devices[d][f + 1]
             /\ \A g \in 0..(f - 1) : ~physical_devices[d][g + 1]
             /\ \A e \in 1..(d - 1) : ~HasGraphics(physical_devices[e])
    /\ Called(vk_log, "create_device") => IsSome(vk_selected)
    /\ (\A e \in 1..Len(physical_devices) : ~HasGraphics(physical_devices[e]))
       => /\ vk_state \in {"none", "failed"}
          /\ ~Called(vk_log, "create_device")

C6_Witness ==
    /\ vk_state = "live"
    /\ Len(physical_devices) = 3
    /\ vk_selected = Some(<<2, 1>>)
    /\ Len(physical_devices[2]) = 2
    /\ HasGraphics(physical_devices[3])

\* C9: in the teardown the device-idle wait comes before the destruction
\* of the logical device, which comes before the destruction of the
\* instance; neither is destroyed without an earlier device-idle wait.
C9_IdleBeforeDestroy ==
    /\ \A i \in 1..Len(vk_log) :
         /\ vk_log[i] = "destroy_device"
            => \E j \in 1..(i - 1) : vk_log[j] = "device_wait_idle"
         /\ vk_log[i] = "destroy_instance"
            => \E j \in 1..(i - 1) :
                  /\ vk_log[j] = "destroy_device"
                  /\ \E k \in 1..(j - 1) : vk_log[k] = "device_wait_idle"
    /\ vk_state = "dropped"
       => Called(vk_log, "destroy_device") /\ Called(vk_log, "destroy_instance")

C9_Witness ==
    /\ vk_state = "dropped"
    /\ Called(vk_log, "destroy_instance")

\* ---------------------------------------------------------------------
\* Properties of the EGL bootstrap (checked under SpecEgl)

\* C7: the selected configuration has the highest sample count of the
\* list and, among the configurations with that count, is the first one;
\* an empty list is fatal.
C7_FirstMaxWins ==
    /\ IsSome(egl_config) =>
         LET p == Unwrap(egl_config)
         IN  /\ p \in 0..(Len(configs) - 1)
             /\ \A q \in 0..(Len(configs) - 1) : configs[q + 1] <= configs[p + 1]
             /\ \A q \in 0..(p - 1) : configs[q + 1] < configs[p + 1]
    /\ (Len(configs) = 0 /\ egl_state # "none") => egl_state = "failed"

====
